---- MODULE Spec2Model ----
(***************************************************************************)
(* Model of the BHV web application's account core: the ADMIN_EMAILS       *)
(* allow-list resolver (app/config.py), the User and OTP models            *)
(* (app/models.py) and the authentication routes (app/auth/routes.py,      *)
(* app/utils.py).                                                          *)
(*                                                                         *)
(* Text values (emails, .env values) are sequences of one-character        *)
(* strings so that strip(), lower() and split(',') are computed.  Python's *)
(* None and '' are both falsy wherever the code tests them; both are the   *)
(* empty sequence here, 0 is "no user id" and "" is "no google id".        *)
(* Time is counted in minutes.                                             *)
(*                                                                         *)
(* A request handler is an operator from the state it finds and the        *)
(* request's inputs to the set of outcomes it can produce (the state it    *)
(* leaves and the response); the action of a handler takes one outcome.    *)
(***************************************************************************)
EXTENDS Integers, Sequences, FiniteSets, TLC

(* ------------------------------ bounds -------------------------------- *)
MaxUsers == 2
MaxOtps == 2
MaxTime == 20
MaxMessages == 2
Clients == {1, 2}
TickSteps == {10}
Passwords == {"pw1", "pw2"}
Codes == {"123456", "654321"}
RawEmails == {<<"A">>, <<"a", " ">>}
GoogleAccounts == {[sub |-> "g1", email |-> <<"A">>]}

(* ------------------------- program constants -------------------------- *)
OTP_EXPIRY_MINUTES == 10

(* ------------------------------ strings ------------------------------- *)
RECURSIVE lstrip(_)
lstrip(s) ==
    IF s = <<>> THEN s
    ELSE IF Head(s) = " " THEN lstrip(Tail(s)) ELSE s

RECURSIVE rstrip(_)
rstrip(s) ==
    IF s = <<>> THEN s
    ELSE IF s[Len(s)] = " " THEN rstrip(SubSeq(s, 1, Len(s) - 1)) ELSE s

strip(s) == rstrip(lstrip(s))

lower_char(ch) ==
    IF ch = "A" THEN "a" ELSE IF ch = "B" THEN "b" ELSE ch

lower(s) == [i \in DOMAIN s |-> lower_char(s[i])]

\* s.split(','): the pieces between commas, empty pieces included.
RECURSIVE split_from(_, _, _)
split_from(s, i, piece) ==
    IF i > Len(s) THEN <<piece>>
    ELSE IF s[i] = "," THEN <<piece>> \o split_from(s, i + 1, <<>>)
    ELSE split_from(s, i + 1, Append(piece, s[i]))

split(s) == split_from(s, 1, <<>>)

\* `email.strip().lower() if email else ''`
normalize_email(email) == IF email = <<>> THEN <<>> ELSE lower(strip(email))

(* --------------------------- configuration ---------------------------- *)
NoEntry == <<"<unset>">>
EnvKeys == {"ADMIN_EMAILS", "ADMIN_EMAIL"}
EmptyEnviron == [k \in EnvKeys |-> NoEntry]

\* The contents the .env file takes in the model.
EnvFiles ==
    { [ADMIN_EMAILS |-> <<" ", "A", ",", "b">>, ADMIN_EMAIL |-> NoEntry],
      [ADMIN_EMAILS |-> <<"b", ",">>, ADMIN_EMAIL |-> NoEntry] }

VARIABLES
    envFile,     \* the .env file: key -> value, NoEntry when the key is not in it
    osEnviron,   \* os.environ of the server process, the two keys read
    users,       \* the users collection, in insertion order; _id is the index
    otps,        \* the otps collection, in insertion order
    session,     \* per browser: Flask session (pending_email, logged-in user id)
    now,         \* datetime.utcnow(), in minutes
    inflight,    \* per browser: the request being handled step by step, if any
    chat_messages \* the chat_messages collection, in insertion order

vars == <<envFile, osEnviron, users, otps, session, now, inflight, chat_messages>>

\* The state as one record, as the handlers read and return it.
State ==
    [envFile |-> envFile, osEnviron |-> osEnviron, users |-> users,
     otps |-> otps, session |-> session, now |-> now,
     chat_messages |-> chat_messages]

load_dotenv_no_override(file, environ) ==
    [k \in EnvKeys |-> IF environ[k] # NoEntry THEN environ[k] ELSE file[k]]

\* load_dotenv(override=True): every key of the file overwrites os.environ;
\* a key the file does not hold keeps the value os.environ already has.
load_dotenv(file, environ) ==
    [k \in EnvKeys |-> IF file[k] # NoEntry THEN file[k] ELSE environ[k]]

\* os.environ.get(key, '')
environ_get(environ, key) == IF environ[key] = NoEntry THEN <<>> ELSE environ[key]

RECURSIVE parse_emails_no_lower(_)
parse_emails_no_lower(pieces) ==
    IF pieces = <<>> THEN <<>>
    ELSE LET email == strip(Head(pieces))
         IN  IF email # <<>> THEN <<email>> \o parse_emails_no_lower(Tail(pieces))
             ELSE parse_emails_no_lower(Tail(pieces))

RECURSIVE parse_emails(_)
parse_emails(pieces) ==
    IF pieces = <<>> THEN <<>>
    ELSE LET email == strip(Head(pieces))
         IN  IF email # <<>> THEN <<lower(email)>> \o parse_emails(Tail(pieces))
             ELSE parse_emails(Tail(pieces))

get_admin_emails_cached(S) ==
    LET admin_emails_str == strip(environ_get(S.osEnviron, "ADMIN_EMAILS"))
    IN  IF admin_emails_str = <<>>
        THEN LET admin_email == strip(environ_get(S.osEnviron, "ADMIN_EMAIL"))
             IN  IF admin_email # <<>> THEN <<lower(admin_email)>> ELSE <<>>
        ELSE parse_emails(split(admin_emails_str))

\* get_admin_emails(): reloads .env into os.environ, then parses what it reads there.
get_admin_emails(S) ==
    LET environ == load_dotenv(S.envFile, S.osEnviron)
        admin_emails_str == strip(environ_get(environ, "ADMIN_EMAILS"))
    IN  IF admin_emails_str = <<>>
        THEN LET admin_email == strip(environ_get(environ, "ADMIN_EMAIL"))
             IN  IF admin_email # <<>> THEN <<lower(admin_email)>> ELSE <<>>
        ELSE parse_emails(split(admin_emails_str))

is_admin_email(S, email) ==
    IF email = <<>> THEN FALSE
    ELSE LET email_normalized == lower(strip(email))
         IN  IF email_normalized = <<>> THEN FALSE
             ELSE LET admin_emails == get_admin_emails(S)
                  IN  IF admin_emails = <<>> THEN FALSE
                      ELSE \E i \in DOMAIN admin_emails :
                               admin_emails[i] = email_normalized

\* The state a call of is_admin_email leaves: os.environ reloaded from .env.
reloaded(S) == [S EXCEPT !.osEnviron = load_dotenv(S.envFile, S.osEnviron)]

(* ------------------------------- User --------------------------------- *)
hashpw(password) == <<"bcrypt", password>>

role_stored_only(S, u) == u.role

\* User.role of the user document u
role(S, u) == IF is_admin_email(S, u.email) THEN "admin" ELSE u.role

get_stored_role(u) == u.role

check_password(u, password) ==
    IF u.password_hash = <<>> THEN FALSE ELSE u.password_hash = hashpw(password)

User_create_unverified(S, email, password, google_id) ==
    [email |-> normalize_email(email),
     role |-> IF is_admin_email(S, normalize_email(email)) THEN "admin" ELSE "user",
     is_verified |-> FALSE,
     google_id |-> google_id,
     password_hash |-> IF password # "" THEN hashpw(password) ELSE <<>>]

\* The document User.create(email, password, role=None, google_id) inserts.
User_create(S, email, password, google_id) ==
    [email |-> normalize_email(email),
     role |-> IF is_admin_email(S, normalize_email(email)) THEN "admin" ELSE "user",
     is_verified |-> (password = ""),
     google_id |-> google_id,
     password_hash |-> IF password # "" THEN hashpw(password) ELSE <<>>]

\* The _ids find_one({'email': email}) may return; 0 stands for None.
find_by_email(us, email) ==
    LET e == IF email = <<>> THEN <<>> ELSE lower(strip(email))
        found == IF e = <<>> THEN {} ELSE {i \in DOMAIN us : us[i].email = e}
    IN  IF found = {} THEN {0} ELSE found

find_by_google_id(us, google_id) ==
    LET found == {i \in DOMAIN us : us[i].google_id = google_id}
    IN  IF found = {} THEN {0} ELSE found

reconcile_keep(stored_role, should_be_admin) == stored_role

reconcile_promote_only(stored_role, should_be_admin) ==
    IF should_be_admin THEN "admin" ELSE stored_role

reconcile_flip(stored_role, should_be_admin) ==
    IF should_be_admin THEN (IF stored_role = "admin" THEN "user" ELSE "admin")
    ELSE "user"

\* The role the check made at every login leaves in the database.
reconcile(stored_role, should_be_admin) ==
    IF should_be_admin /\ stored_role # "admin" THEN "admin"
    ELSE IF ~should_be_admin /\ stored_role = "admin" THEN "user"
    ELSE stored_role

(* -------------------------------- OTP --------------------------------- *)
OTP_create_used(email, otp_code, t) ==
    [email |-> email, otp_code |-> otp_code, created_at |-> t, used |-> TRUE]

OTP_create(email, otp_code, t) ==
    [email |-> email, otp_code |-> otp_code, created_at |-> t, used |-> FALSE]

find_valid_strict(os, t, email, otp_code) ==
    \E i \in DOMAIN os :
        /\ os[i].email = email
        /\ os[i].otp_code = otp_code
        /\ os[i].used = FALSE
        /\ os[i].created_at > t - OTP_EXPIRY_MINUTES

find_valid_no_expiry(os, t, email, otp_code) ==
    \E i \in DOMAIN os :
        os[i].email = email /\ os[i].otp_code = otp_code /\ os[i].used = FALSE

find_valid_any_email(os, t, email, otp_code) ==
    \E i \in DOMAIN os :
        /\ os[i].otp_code = otp_code
        /\ os[i].used = FALSE
        /\ os[i].created_at >= t - OTP_EXPIRY_MINUTES

find_valid_latest_only(os, t, email, otp_code) ==
    \E i \in DOMAIN os :
        /\ os[i].email = email
        /\ os[i].otp_code = otp_code
        /\ os[i].used = FALSE
        /\ os[i].created_at >= t - OTP_EXPIRY_MINUTES
        /\ \A j \in DOMAIN os : os[j].email = email => j <= i

find_valid_ignores_used(os, t, email, otp_code) ==
    \E i \in DOMAIN os :
        /\ os[i].email = email
        /\ os[i].otp_code = otp_code
        /\ os[i].created_at >= t - OTP_EXPIRY_MINUTES

find_valid(os, t, email, otp_code) ==
    \E i \in DOMAIN os :
        /\ os[i].email = email
        /\ os[i].otp_code = otp_code
        /\ os[i].used = FALSE
        /\ os[i].created_at >= t - OTP_EXPIRY_MINUTES

\* update_one({'email', 'otp_code'}, {'$set': {'used': True}}): one matching
\* row, which one the store does not say, is updated; none if none matches.
mark_used_nothing(os, email, otp_code) == {os}

mark_used_toggle(os, email, otp_code) ==
    LET matches == {i \in DOMAIN os : os[i].email = email /\ os[i].otp_code = otp_code}
    IN  IF matches = {} THEN {os}
        ELSE {[os EXCEPT ![i].used = ~os[i].used] : i \in matches}

mark_used(os, email, otp_code) ==
    LET matches == {i \in DOMAIN os : os[i].email = email /\ os[i].otp_code = otp_code}
    IN  IF matches = {} THEN {os}
        ELSE {[os EXCEPT ![i].used = TRUE] : i \in matches}

(* ----------------------------- responses ------------------------------ *)
\* What a handler produces: the state it leaves, the message it flashes, the
\* endpoint it redirects to ("" when it renders a page), the user id it passes
\* to login_user (0: none) and the role it passes to update_role ("": none).
Outcome(S, flash, redirect) ==
    [st |-> S, flash |-> flash, redirect |-> redirect, login_user |-> 0,
     update_role |-> ""]

login_user_only(S, c, i, flash) ==
    [st |-> [S EXCEPT !.session[c].user_id = i], flash |-> flash,
     redirect |-> "uploads.gallery", login_user |-> i, update_role |-> ""]

\* The role check and login_user of user i, common to the three login paths.
LoggedIn(S, c, i, flash) ==
    LET new_role == reconcile(get_stored_role(S.users[i]),
                              is_admin_email(S, S.users[i].email))
        T == reloaded(S)
    IN  [st |-> [T EXCEPT !.users[i].role = new_role, !.session[c].user_id = i],
         flash |-> flash, redirect |-> "uploads.gallery", login_user |-> i,
         update_role |-> IF new_role # S.users[i].role THEN new_role ELSE ""]

Authenticated(S, c) == S.session[c].user_id # 0

(* ------------------------------ handlers ------------------------------ *)
register_update_password_only(S, i, email, password) ==
    [reloaded(S) EXCEPT !.users[i].password_hash = hashpw(password)]

\* register, for a user i that exists and is not verified: password and role updated.
register_update(S, i, email, password) ==
    [reloaded(S) EXCEPT
       !.users[i].password_hash = hashpw(password),
       !.users[i].role = IF is_admin_email(S, email) THEN "admin" ELSE "user"]

register_no_verified_check(S, c, raw, password, otp_code, email_sent) ==
    LET email == lower(strip(raw))
        issued(T) ==
            [st |-> [T EXCEPT !.otps = Append(T.otps, OTP_create(email, otp_code, T.now)),
                              !.session[c].pending_email = email],
             flash |-> "", redirect |-> "auth.verify_otp", login_user |-> 0,
             update_role |-> ""]
        found(i) ==
            IF i # 0
            THEN issued(register_update(S, i, email, password))
            ELSE issued([reloaded(S) EXCEPT
                           !.users = Append(S.users, User_create(S, email, password, ""))])
    IN  IF Authenticated(S, c)
        THEN {Outcome(S, "", "uploads.gallery")}
        ELSE {found(i) : i \in find_by_email(S.users, email)}

register_aborts_when_unsent(S, c, raw, password, otp_code, email_sent) ==
    IF email_sent
    THEN register_no_verified_check(S, c, raw, password, otp_code, email_sent)
    ELSE {Outcome(S, "Failed to send OTP email.", "")}

\* POST /auth/register with a form that passes the field validators.
\* otp_code is what generate_otp() draws; email_sent is the outcome of delivery.
register(S, c, raw, password, otp_code, email_sent) ==
    LET email == lower(strip(raw))
        issued(T) ==
            [st |-> [T EXCEPT !.otps = Append(T.otps, OTP_create(email, otp_code, T.now)),
                              !.session[c].pending_email = email],
             flash |-> IF email_sent
                       THEN "OTP has been sent to your email. Please verify your email."
                       ELSE "Failed to send OTP email.",
             redirect |-> "auth.verify_otp", login_user |-> 0, update_role |-> ""]
        found(i) ==
            IF i # 0 /\ S.users[i].is_verified
            THEN \* RegisterForm.validate_email fails and the form is shown again
                 Outcome(S, "Email is already registered and verified. Please login instead.", "")
            ELSE IF i # 0
            THEN issued(register_update(S, i, email, password))
            ELSE issued([reloaded(S) EXCEPT
                           !.users = Append(S.users, User_create(S, email, password, ""))])
    IN  IF Authenticated(S, c)
        THEN {Outcome(S, "", "uploads.gallery")}
        ELSE {found(i) : i \in find_by_email(S.users, email)}

login_skips_verified(S, c, raw, password) ==
    LET found(i) ==
            IF i # 0 /\ check_password(S.users[i], password)
            THEN LoggedIn(S, c, i, "")
            ELSE Outcome(S, "Invalid email or password.", "")
    IN  IF Authenticated(S, c)
        THEN {Outcome(S, "", "uploads.gallery")}
        ELSE {found(i) : i \in find_by_email(S.users, raw)}

\* POST /auth/login
login(S, c, raw, password) ==
    LET found(i) ==
            IF i # 0 /\ check_password(S.users[i], password)
            THEN IF ~S.users[i].is_verified
                 THEN Outcome(S, "Please verify your email before logging in.",
                              "auth.register")
                 ELSE LoggedIn(S, c, i, "")
            ELSE Outcome(S, "Invalid email or password.", "")
    IN  IF Authenticated(S, c)
        THEN {Outcome(S, "", "uploads.gallery")}
        ELSE {found(i) : i \in find_by_email(S.users, raw)}

\* POST /auth/verify-otp
verify_otp(S, c, otp_code) ==
    LET pending_email == S.session[c].pending_email
        verified(os, i) ==
            LET T == [S EXCEPT !.otps = os, !.session[c].pending_email = <<>>]
            IN  IF i = 0
                THEN Outcome(T, "User not found. Please register again.", "auth.register")
                ELSE LoggedIn([T EXCEPT !.users[i].is_verified = TRUE], c, i,
                              "Email verified successfully!")
    IN  IF Authenticated(S, c)
        THEN {Outcome(S, "", "uploads.gallery")}
        ELSE IF pending_email = <<>>
        THEN {Outcome(S, "Please register first.", "auth.register")}
        ELSE IF find_valid(S.otps, S.now, pending_email, otp_code)
        THEN {verified(os, i) : os \in mark_used(S.otps, pending_email, otp_code),
                                i \in find_by_email(S.users, pending_email)}
        ELSE {Outcome(S, "Invalid or expired OTP code.", "")}

\* find_or_create_user_google: the state it leaves and the _id of the user it returns.
find_or_create_user_google(S, user_info) ==
    LET by_email(j) ==
            IF j # 0
            THEN [st |-> [S EXCEPT !.users[j].google_id = user_info.sub,
                                   !.users[j].is_verified = TRUE],
                  id |-> j]
            ELSE [st |-> [reloaded(S) EXCEPT
                            !.users = Append(S.users,
                                             User_create(S, user_info.email, "",
                                                         user_info.sub))],
                  id |-> Len(S.users) + 1]
        by_google(i) ==
            IF i # 0 THEN {[st |-> S, id |-> i]}
            ELSE {by_email(j) : j \in find_by_email(S.users, user_info.email)}
    IN  UNION {by_google(i) : i \in find_by_google_id(S.users, user_info.sub)}

\* GET /auth/google-callback; granted: the provider returned a token and user_info.
google_callback(S, c, user_info, granted) ==
    IF ~granted
    THEN {Outcome(S, "Google login failed. Please try again.", "auth.login")}
    ELSE {LoggedIn(found.st, c, found.id, "Logged in with Google successfully!") :
              found \in find_or_create_user_google(S, user_info)}

\* GET /auth/logout
logout(S, c) ==
    IF Authenticated(S, c)
    THEN {Outcome([S EXCEPT !.session[c].user_id = 0], "You have been logged out.",
                  "auth.login")}
    ELSE {Outcome(S, "Please log in to access this page.", "auth.login")}

\* GET /
index_route(S, c) ==
    IF Authenticated(S, c)
    THEN {Outcome(reloaded(S), "",
                  IF role(S, S.users[S.session[c].user_id]) = "admin"
                  THEN "admin.dashboard" ELSE "uploads.gallery")}
    ELSE {Outcome(S, "", "auth.login")}

(* ------------------------------- gates -------------------------------- *)
\* A decorated view is asked for by browser c; is_api: the request is JSON or
\* its path starts with /api/.  A gate that lets the request through calls the
\* view: that outcome has neither a message nor a redirect.  A JSON error is
\* kept as its error text and status code in the flash and redirect fields.
current_user(S, c) == S.users[S.session[c].user_id]

\* flask_login.login_required with login_manager.login_view = 'auth.login'
login_required(S) == Outcome(S, "Please log in to access this page.", "auth.login")

not_verified(S, is_api) ==
    IF is_api THEN Outcome(S, "Email verification required", "403")
    ELSE Outcome(S, "Please verify your email before accessing this page.",
                 "auth.register")

\* is_admin = is_admin_email(current_user.email), with the stored role as fallback
is_admin(S, u) ==
    IF ~is_admin_email(S, u.email) THEN get_stored_role(u) = "admin" ELSE TRUE

admin_required_allow_list_only(S, c, is_api) ==
    IF ~Authenticated(S, c) THEN {login_required(S)}
    ELSE IF ~current_user(S, c).is_verified THEN {not_verified(S, is_api)}
    ELSE IF ~is_admin_email(S, current_user(S, c).email)
    THEN {Outcome(reloaded(S), "Admin access required.", "uploads.gallery")}
    ELSE {Outcome(reloaded(S), "", "")}

admin_required(S, c, is_api) ==
    IF ~Authenticated(S, c) THEN {login_required(S)}
    ELSE IF ~current_user(S, c).is_verified THEN {not_verified(S, is_api)}
    ELSE IF ~is_admin(S, current_user(S, c))
    THEN {IF is_api THEN Outcome(reloaded(S), "Admin access required", "403")
          ELSE Outcome(reloaded(S), "Admin access required.", "uploads.gallery")}
    ELSE {Outcome(reloaded(S), "", "")}

verified_user_required_login_only(S, c, is_api) ==
    IF ~Authenticated(S, c) THEN {login_required(S)} ELSE {Outcome(S, "", "")}

verified_user_required(S, c, is_api) ==
    IF ~Authenticated(S, c) THEN {login_required(S)}
    ELSE IF ~current_user(S, c).is_verified THEN {not_verified(S, is_api)}
    ELSE {Outcome(S, "", "")}

user_only_allow_list_only(S, c, is_api) ==
    IF ~Authenticated(S, c) THEN {login_required(S)}
    ELSE IF ~current_user(S, c).is_verified THEN {not_verified(S, is_api)}
    ELSE IF is_admin_email(S, current_user(S, c).email)
    THEN {Outcome(reloaded(S),
                  "Admin users cannot access this feature. Please use the admin dashboard.",
                  "admin.dashboard")}
    ELSE {Outcome(reloaded(S), "", "")}

user_only_role_first(S, c, is_api) ==
    IF ~Authenticated(S, c) THEN {login_required(S)}
    ELSE IF is_admin(S, current_user(S, c))
    THEN {Outcome(reloaded(S),
                  "Admin users cannot access this feature. Please use the admin dashboard.",
                  "admin.dashboard")}
    ELSE IF ~current_user(S, c).is_verified THEN {not_verified(reloaded(S), is_api)}
    ELSE {Outcome(reloaded(S), "", "")}

user_only(S, c, is_api) ==
    IF ~Authenticated(S, c) THEN {login_required(S)}
    ELSE IF ~current_user(S, c).is_verified THEN {not_verified(S, is_api)}
    ELSE IF is_admin(S, current_user(S, c))
    THEN {IF is_api
          THEN Outcome(reloaded(S),
                       "Admin access not allowed. This feature is for regular users only.",
                       "403")
          ELSE Outcome(reloaded(S),
                       "Admin users cannot access this feature. Please use the admin dashboard.",
                       "admin.dashboard")}
    ELSE {Outcome(reloaded(S), "", "")}

(* -------------------------------- chat -------------------------------- *)
\* The answer of a chat view: the state it leaves, the status code, the error
\* text ("" when it succeeds) and the messages it lists.
ChatResponse(S, status, error, messages) ==
    [st |-> S, status |-> status, error |-> error, messages |-> messages]

\* What the gate answers when it does not call the view.
Denied(g) == ChatResponse(g.st, IF g.redirect = "403" THEN "403" ELSE "302", g.flash, <<>>)

\* `user_id != current_user.id and current_user.role != 'admin'`; the role is
\* read (and .env reloaded) only when the ids differ.
not_own_and_not_admin(S, c, user_id) ==
    user_id # S.session[c].user_id /\ role(S, current_user(S, c)) # "admin"

\* POST /chat/send with JSON {message, user_id}; user_id 0: the key is absent.
send_message(S, c, user_id, message) ==
    LET view(T) ==
            LET target == IF user_id = 0 THEN T.session[c].user_id ELSE user_id
                sender_role ==
                    IF role(T, current_user(T, c)) = "admin" THEN "admin" ELSE "user"
            IN  IF not_own_and_not_admin(T, c, target)
                THEN ChatResponse(reloaded(T), "403", "Unauthorized", <<>>)
                ELSE IF strip(message) = <<>>
                THEN ChatResponse(IF target # T.session[c].user_id THEN reloaded(T) ELSE T,
                                  "400", "Message cannot be empty", <<>>)
                ELSE ChatResponse(
                         [reloaded(T) EXCEPT !.chat_messages =
                             Append(@, [user_id |-> target, message |-> strip(message),
                                        sender_role |-> sender_role])],
                         "200", "", <<>>)
    IN  {IF g.flash = "" /\ g.redirect = "" THEN view(g.st) ELSE Denied(g) :
             g \in verified_user_required(S, c, TRUE)}

\* GET /chat/list/<user_id>
list_messages(S, c, user_id, is_api) ==
    LET view(T) ==
            IF not_own_and_not_admin(T, c, user_id)
            THEN ChatResponse(reloaded(T), "403", "Unauthorized", <<>>)
            ELSE ChatResponse(IF user_id # T.session[c].user_id THEN reloaded(T) ELSE T,
                              "200", "",
                              SelectSeq(T.chat_messages, LAMBDA m : m.user_id = user_id))
    IN  {IF g.flash = "" /\ g.redirect = "" THEN view(g.st) ELSE Denied(g) :
             g \in verified_user_required(S, c, is_api)}

(* ---------------------------- specification --------------------------- *)
\* A request in flight: where the handler is (pc), and its local variables.
Idle == [pc |-> "idle", pending_email |-> <<>>, otp_code |-> "", user |-> 0,
         stored_role |-> "", google_id |-> ""]

Init ==
    /\ envFile \in EnvFiles
    /\ osEnviron = load_dotenv(envFile, EmptyEnviron)
    /\ users = <<>>
    /\ otps = <<>>
    /\ session = [c \in Clients |-> [pending_email |-> <<>>, user_id |-> 0]]
    /\ now = 0
    /\ inflight = [c \in Clients |-> Idle]
    /\ chat_messages = <<>>

\* The server handles a request to its end: the state becomes the outcome's.
Handled(r) ==
    /\ Len(r.st.users) <= MaxUsers
    /\ Len(r.st.otps) <= MaxOtps
    /\ envFile' = r.st.envFile
    /\ osEnviron' = r.st.osEnviron
    /\ users' = r.st.users
    /\ otps' = r.st.otps
    /\ session' = r.st.session
    /\ now' = r.st.now
    /\ chat_messages' = r.st.chat_messages
    /\ UNCHANGED inflight

Register(c, raw, password, otp_code, email_sent) ==
    \E r \in register(State, c, raw, password, otp_code, email_sent) : Handled(r)

Login(c, raw, password) == \E r \in login(State, c, raw, password) : Handled(r)

VerifyOtp(c, otp_code) == \E r \in verify_otp(State, c, otp_code) : Handled(r)

GoogleCallback(c, user_info, granted) ==
    \E r \in google_callback(State, c, user_info, granted) : Handled(r)

Logout(c) == \E r \in logout(State, c) : Handled(r)

IndexRoute(c) == \E r \in index_route(State, c) : Handled(r)

\* Requests for the views behind the three gates.
AdminRequired(c, is_api) == \E r \in admin_required(State, c, is_api) : Handled(r)

UserOnly(c, is_api) == \E r \in user_only(State, c, is_api) : Handled(r)

VerifiedUserRequired(c, is_api) ==
    \E r \in verified_user_required(State, c, is_api) : Handled(r)

\* An edit of the .env file while the server runs.
EditEnvFile(file) ==
    /\ file # envFile
    /\ envFile' = file
    /\ UNCHANGED <<osEnviron, users, otps, session, now, inflight, chat_messages>>

Tick(d) ==
    /\ now + d <= MaxTime
    /\ now' = now + d
    /\ UNCHANGED <<envFile, osEnviron, users, otps, session, inflight, chat_messages>>

Next ==
    \/ \E file \in EnvFiles : EditEnvFile(file)
    \/ \E d \in TickSteps : Tick(d)
    \/ \E c \in Clients, raw \in RawEmails, password \in Passwords,
          otp_code \in Codes, email_sent \in BOOLEAN :
           Register(c, raw, password, otp_code, email_sent)
    \/ \E c \in Clients, raw \in RawEmails, password \in Passwords :
           Login(c, raw, password)
    \/ \E c \in Clients, otp_code \in Codes : VerifyOtp(c, otp_code)
    \/ \E c \in Clients, user_info \in GoogleAccounts, granted \in BOOLEAN :
           GoogleCallback(c, user_info, granted)
    \/ \E c \in Clients : Logout(c)
    \/ \E c \in Clients : IndexRoute(c)
    \/ \E c \in Clients, is_api \in BOOLEAN : AdminRequired(c, is_api)
    \/ \E c \in Clients, is_api \in BOOLEAN : UserOnly(c, is_api)
    \/ \E c \in Clients, is_api \in BOOLEAN : VerifiedUserRequired(c, is_api)

Spec == Init /\ [][Next]_vars

(* ------------------- verify_otp, one database call at a time ----------- *)
\* The requests of different browsers are handled concurrently: each step below
\* is one call of verify_otp to the store, and the steps of two requests interleave.
Request(c, pc, user, stored_role) ==
    [inflight EXCEPT ![c].pc = pc, ![c].user = user, ![c].stored_role = stored_role]

\* The checks on the session and OTP.find_valid.
vo_find_valid(c, otp_code) ==
    /\ inflight[c].pc \in {"idle", "verified"}
    /\ IF /\ ~Authenticated(State, c)
          /\ session[c].pending_email # <<>>
          /\ find_valid(otps, now, session[c].pending_email, otp_code)
       THEN inflight' = [inflight EXCEPT ![c] =
                            [pc |-> "mark_used",
                             pending_email |-> session[c].pending_email,
                             otp_code |-> otp_code, user |-> 0, stored_role |-> "",
                             google_id |-> ""]]
       ELSE inflight' = [inflight EXCEPT ![c] = Idle]
    /\ UNCHANGED <<envFile, osEnviron, users, otps, session, now, chat_messages>>

\* OTP.mark_used
vo_mark_used(c) ==
    /\ inflight[c].pc = "mark_used"
    /\ otps' \in mark_used(otps, inflight[c].pending_email, inflight[c].otp_code)
    /\ inflight' = Request(c, "find_user", 0, "")
    /\ UNCHANGED <<envFile, osEnviron, users, session, now, chat_messages>>

\* User.find_by_email: the User object holds the role stored at this moment.
vo_find_by_email(c) ==
    /\ inflight[c].pc = "find_user"
    /\ \E i \in find_by_email(users, inflight[c].pending_email) :
           IF i = 0
           THEN /\ session' = [session EXCEPT ![c].pending_email = <<>>]
                /\ inflight' = [inflight EXCEPT ![c] = Idle]
           ELSE /\ inflight' = Request(c, "update_role", i, get_stored_role(users[i]))
                /\ UNCHANGED session
    /\ UNCHANGED <<envFile, osEnviron, users, otps, now, chat_messages>>

\* The role check: is_admin_email, and update_role if the stored role differs.
vo_update_role(c) ==
    /\ inflight[c].pc = "update_role"
    /\ LET new_role == reconcile(inflight[c].stored_role,
                                 is_admin_email(State, inflight[c].pending_email))
       IN  /\ users' = IF new_role # inflight[c].stored_role
                       THEN [users EXCEPT ![inflight[c].user].role = new_role]
                       ELSE users
           /\ inflight' = Request(c, "verify", inflight[c].user, new_role)
    /\ osEnviron' = load_dotenv(envFile, osEnviron)
    /\ UNCHANGED <<envFile, otps, session, now, chat_messages>>

\* user.verify(), login_user and the removal of pending_email from the session.
vo_verify(c) ==
    /\ inflight[c].pc = "verify"
    /\ users' = [users EXCEPT ![inflight[c].user].is_verified = TRUE]
    /\ session' = [session EXCEPT ![c].user_id = inflight[c].user,
                                  ![c].pending_email = <<>>]
    /\ inflight' = Request(c, "verified", inflight[c].user, inflight[c].stored_role)
    /\ UNCHANGED <<envFile, osEnviron, otps, now, chat_messages>>

NextConc ==
    \/ \E file \in EnvFiles : EditEnvFile(file)
    \/ \E d \in TickSteps : Tick(d)
    \/ \E c \in Clients, raw \in RawEmails, password \in Passwords,
          otp_code \in Codes, email_sent \in BOOLEAN :
           Register(c, raw, password, otp_code, email_sent)
    \/ \E c \in Clients, otp_code \in Codes : vo_find_valid(c, otp_code)
    \/ \E c \in Clients : vo_mark_used(c)
    \/ \E c \in Clients : vo_find_by_email(c)
    \/ \E c \in Clients : vo_update_role(c)
    \/ \E c \in Clients : vo_verify(c)

ConcSpec == Init /\ [][NextConc]_vars

(* -------------------- register, one database call at a time ----------- *)
\* The local variable `email` of a register request is kept in the request's
\* pending_email field and `existing_user` in its user field (0: None).

\* RegisterForm.validate_email: the first User.find_by_email of the request.
rg_validate_email(c, raw) ==
    /\ inflight[c].pc = "idle"
    /\ ~Authenticated(State, c)
    /\ \E i \in find_by_email(users, lower(strip(raw))) :
           IF i # 0 /\ users[i].is_verified
           THEN UNCHANGED inflight
           ELSE inflight' = [inflight EXCEPT ![c] =
                                [Idle EXCEPT !.pc = "reg_find",
                                             !.pending_email = lower(strip(raw))]]
    /\ UNCHANGED <<envFile, osEnviron, users, otps, session, now, chat_messages>>

\* existing_user = User.find_by_email(email), and the test that it is verified.
rg_find_by_email(c) ==
    /\ inflight[c].pc = "reg_find"
    /\ \E i \in find_by_email(users, inflight[c].pending_email) :
           IF i # 0 /\ users[i].is_verified
           THEN inflight' = [inflight EXCEPT ![c] = Idle]
           ELSE inflight' = Request(c, "reg_write", i, "")
    /\ UNCHANGED <<envFile, osEnviron, users, otps, session, now, chat_messages>>

\* update_one on the existing user, or User.create when none was found.
rg_write(c, password) ==
    /\ inflight[c].pc = "reg_write"
    /\ LET email == inflight[c].pending_email
           i == inflight[c].user
           T == IF i # 0
                THEN register_update(State, i, email, password)
                ELSE [reloaded(State) EXCEPT
                        !.users = Append(users, User_create(State, email, password, ""))]
       IN  /\ Len(T.users) <= MaxUsers
           /\ users' = T.users
           /\ osEnviron' = T.osEnviron
    /\ inflight' = Request(c, "reg_otp", inflight[c].user, "")
    /\ UNCHANGED <<envFile, otps, session, now, chat_messages>>

\* generate_otp, OTP.create and session['pending_email'] = email.
rg_otp_create(c, otp_code) ==
    /\ inflight[c].pc = "reg_otp"
    /\ Len(otps) < MaxOtps
    /\ otps' = Append(otps, OTP_create(inflight[c].pending_email, otp_code, now))
    /\ session' = [session EXCEPT ![c].pending_email = inflight[c].pending_email]
    /\ inflight' = [inflight EXCEPT ![c] = Idle]
    /\ UNCHANGED <<envFile, osEnviron, users, now, chat_messages>>

NextRegConc ==
    \/ \E file \in EnvFiles : EditEnvFile(file)
    \/ \E c \in Clients, raw \in RawEmails : rg_validate_email(c, raw)
    \/ \E c \in Clients : rg_find_by_email(c)
    \/ \E c \in Clients, password \in Passwords : rg_write(c, password)
    \/ \E c \in Clients, otp_code \in Codes : rg_otp_create(c, otp_code)
    \/ \E c \in Clients, user_info \in GoogleAccounts, granted \in BOOLEAN :
           GoogleCallback(c, user_info, granted)
    \/ \E c \in Clients : Logout(c)

RegConcSpec == Init /\ [][NextRegConc]_vars

(* ------------------- the gates, for every current_user ---------------- *)
\* The gates are functions of current_user and the allow-list.  Here the logged
\* in user ranges over every user document the collection can hold, unverified
\* ones included, and os.environ may be stale with respect to the .env file.
UserDocs(email) ==
    [email : {email}, role : {"user", "admin"}, is_verified : BOOLEAN,
     google_id : {""}, password_hash : {hashpw("pw1")}]

InitGates ==
    /\ envFile \in EnvFiles
    /\ osEnviron \in {load_dotenv(file, EmptyEnviron) : file \in EnvFiles}
    /\ users \in {<<u1, u2>> : u1 \in UserDocs(<<"a">>), u2 \in UserDocs(<<"b">>)}
    /\ otps = <<>>
    /\ session \in [Clients -> [pending_email : {<<>>}, user_id : {0, 1, 2}]]
    /\ now = 0
    /\ inflight = [c \in Clients |-> Idle]
    /\ chat_messages = <<>>

NextGates ==
    \/ \E file \in EnvFiles : EditEnvFile(file)
    \/ \E c \in Clients, is_api \in BOOLEAN : AdminRequired(c, is_api)
    \/ \E c \in Clients, is_api \in BOOLEAN : UserOnly(c, is_api)
    \/ \E c \in Clients, is_api \in BOOLEAN : VerifiedUserRequired(c, is_api)

GateSpec == InitGates /\ [][NextGates]_vars

(* ----------------- google_callback, one database call at a time ------- *)
\* The request keeps user_info's email in pending_email and its sub in
\* google_id; user and stored_role are the User object the request holds.

\* User.find_by_google_id
gc_find_by_google_id(c, user_info) ==
    /\ inflight[c].pc = "idle"
    /\ \E i \in find_by_google_id(users, user_info.sub) :
           inflight' = [inflight EXCEPT ![c] =
               [Idle EXCEPT !.pc = IF i # 0 THEN "gc_login" ELSE "gc_find_email",
                            !.pending_email = user_info.email,
                            !.google_id = user_info.sub,
                            !.user = i,
                            !.stored_role = IF i # 0 THEN get_stored_role(users[i]) ELSE ""]]
    /\ UNCHANGED <<envFile, osEnviron, users, otps, session, now, chat_messages>>

\* User.find_by_email
gc_find_by_email(c) ==
    /\ inflight[c].pc = "gc_find_email"
    /\ \E j \in find_by_email(users, inflight[c].pending_email) :
           IF j # 0
           THEN inflight' = Request(c, "gc_link", j, get_stored_role(users[j]))
           ELSE inflight' = Request(c, "gc_create", 0, "")
    /\ UNCHANGED <<envFile, osEnviron, users, otps, session, now, chat_messages>>

\* update_one that links the Google account to the user found by email.
gc_link(c) ==
    /\ inflight[c].pc = "gc_link"
    /\ users' = [users EXCEPT ![inflight[c].user].google_id = inflight[c].google_id,
                              ![inflight[c].user].is_verified = TRUE]
    /\ inflight' = Request(c, "gc_login", inflight[c].user, inflight[c].stored_role)
    /\ UNCHANGED <<envFile, osEnviron, otps, session, now, chat_messages>>

\* User.create(email, role=None, google_id)
gc_create(c) ==
    /\ inflight[c].pc = "gc_create"
    /\ Len(users) < MaxUsers
    /\ LET doc == User_create(State, inflight[c].pending_email, "", inflight[c].google_id)
       IN  /\ users' = Append(users, doc)
           /\ inflight' = Request(c, "gc_login", Len(users) + 1, doc.role)
    /\ osEnviron' = load_dotenv(envFile, osEnviron)
    /\ UNCHANGED <<envFile, otps, session, now, chat_messages>>

\* The role check on the User object the request holds, and login_user.
gc_login(c) ==
    /\ inflight[c].pc = "gc_login"
    /\ LET new_role == reconcile(inflight[c].stored_role,
                                 is_admin_email(State, users[inflight[c].user].email))
       IN  users' = IF new_role # inflight[c].stored_role
                    THEN [users EXCEPT ![inflight[c].user].role = new_role]
                    ELSE users
    /\ osEnviron' = load_dotenv(envFile, osEnviron)
    /\ session' = [session EXCEPT ![c].user_id = inflight[c].user]
    /\ inflight' = [inflight EXCEPT ![c] = Idle]
    /\ UNCHANGED <<envFile, otps, now, chat_messages>>

NextGoogleConc ==
    \/ \E file \in EnvFiles : EditEnvFile(file)
    \/ \E c \in Clients, raw \in RawEmails, otp_code \in Codes :
           Register(c, raw, "pw1", otp_code, TRUE)
    \/ \E c \in Clients, user_info \in GoogleAccounts : gc_find_by_google_id(c, user_info)
    \/ \E c \in Clients : gc_find_by_email(c)
    \/ \E c \in Clients : gc_link(c)
    \/ \E c \in Clients : gc_create(c)
    \/ \E c \in Clients : gc_login(c)
    \/ \E c \in Clients : Logout(c)

GoogleConcSpec == Init /\ [][NextGoogleConc]_vars

(* ------------------- registrations of two email addresses ------------- *)
\* Two browsers register and verify two different emails.
TwoEmails == {<<"A">>, <<"b">>}

NextSession ==
    \/ \E d \in TickSteps : Tick(d)
    \/ \E c \in Clients, raw \in TwoEmails, otp_code \in Codes :
           Register(c, raw, "pw1", otp_code, TRUE)
    \/ \E c \in Clients, otp_code \in Codes : VerifyOtp(c, otp_code)
    \/ \E c \in Clients : Logout(c)

SessionSpec == Init /\ [][NextSession]_vars

(* --------------------- the chat views, for every current_user --------- *)
\* The user ids a chat request can name: the two users and one that is none.
ChatUserIds == {1, 2, 3}

ChatTexts == {<<" ">>, <<"h", "i", " ">>}

SendMessage(c, user_id, message) ==
    \E r \in send_message(State, c, user_id, message) :
        /\ Len(r.st.chat_messages) <= MaxMessages
        /\ Handled(r)

ListMessages(c, user_id, is_api) ==
    \E r \in list_messages(State, c, user_id, is_api) : Handled(r)

NextChat ==
    \/ \E file \in EnvFiles : EditEnvFile(file)
    \/ \E c \in Clients, user_id \in ChatUserIds \cup {0}, message \in ChatTexts :
           SendMessage(c, user_id, message)
    \/ \E c \in Clients, user_id \in ChatUserIds, is_api \in BOOLEAN :
           ListMessages(c, user_id, is_api)

ChatSpec == InitGates /\ [][NextChat]_vars

(* ---------------- the allow-list resolver, for every .env -------------- *)
\* The .env files of this specification: each key absent, empty or set.
ConfigFiles ==
    [ADMIN_EMAILS : {NoEntry, <<>>, <<" ", "A", ",", "b">>, <<"b", ",">>, <<"a">>},
     ADMIN_EMAIL : {NoEntry, <<"A", " ">>, <<"b">>}]

\* The emails is_admin_email is asked about.
Queries == {<<>>, <<" ">>, <<"A">>, <<"a", " ">>, <<" ", "B">>, <<"c">>}

\* The process starts: config.py is imported and loads .env once.
InitConfig ==
    /\ envFile \in ConfigFiles
    /\ osEnviron = load_dotenv(envFile, EmptyEnviron)
    /\ users = <<>>
    /\ otps = <<>>
    /\ session = [c \in Clients |-> [pending_email |-> <<>>, user_id |-> 0]]
    /\ now = 0
    /\ inflight = [c \in Clients |-> Idle]
    /\ chat_messages = <<>>

\* A call of is_admin_email(email): what it leaves is os.environ reloaded.
IsAdminEmail(email) ==
    /\ osEnviron' = reloaded(State).osEnviron
    /\ UNCHANGED <<envFile, users, otps, session, now, inflight, chat_messages>>

NextConfig ==
    \/ \E file \in ConfigFiles : EditEnvFile(file)
    \/ \E email \in Queries : IsAdminEmail(email)

ConfigSpec == InitConfig /\ [][NextConfig]_vars

(* ------------------------------- claims ------------------------------- *)
AllowListed(S, email) ==
    \E k \in DOMAIN get_admin_emails(S) : get_admin_emails(S)[k] = normalize_email(email)

\* The outcomes of the three login paths, for every input.
LoginOutcomes(S) ==
    UNION {login(S, c, raw, password) :
               c \in Clients, raw \in RawEmails, password \in Passwords}

VerifyOutcomes(S) ==
    UNION {verify_otp(S, c, otp_code) : c \in Clients, otp_code \in Codes}

GoogleOutcomes(S) ==
    UNION {google_callback(S, c, user_info, TRUE) :
               c \in Clients, user_info \in GoogleAccounts}

\* Those that establish a session (login_user was called).
AuthEvents(S) ==
    {r \in LoginOutcomes(S) \cup VerifyOutcomes(S) \cup GoogleOutcomes(S) :
         r.login_user # 0}

\* C1: the effective role of every identity is admin whenever the allow-list
\* holds its normalized email, whatever the stored role, and is the stored role
\* otherwise.
C1_EffectiveRole ==
    \A i \in DOMAIN users :
        /\ AllowListed(State, users[i].email) => role(State, users[i]) = "admin"
        /\ ~AllowListed(State, users[i].email) => role(State, users[i]) = users[i].role

\* A logged-in identity stored as user whose email is on the allow-list, and one
\* stored as admin whose email is not: index_route reads the role of both kinds.
C1_Witness ==
    \E c \in Clients :
        /\ session[c].user_id # 0
        /\ AllowListed(State, users[session[c].user_id].email)
        /\ users[session[c].user_id].role = "user"
        /\ \A r \in index_route(State, c) : r.redirect = "admin.dashboard"

\* C2 as written: a login persists the effective role computed before it (admin
\* if the email is on the allow-list, else the stored role), so a stored admin
\* whose email is not on the list stays admin.
C2_PersistsEffectiveRole ==
    \A r \in AuthEvents(State) :
        r.login_user \in DOMAIN users =>
            r.st.users[r.login_user].role = role(State, users[r.login_user])

\* C2 amended: a login leaves the stored role admin if the email is on the
\* allow-list and user if it is not (a stored admin off the list is demoted),
\* and calls update_role exactly when that differs from the stored role.
C2_PersistsAllowListRole ==
    \A r \in AuthEvents(State) :
        r.login_user \in DOMAIN users =>
            LET before == users[r.login_user]
                after == r.st.users[r.login_user]
            IN  /\ after.role = IF AllowListed(State, before.email) THEN "admin" ELSE "user"
                /\ r.update_role # "" <=> after.role # before.role
                /\ r.update_role # "" => r.update_role = after.role

\* A login of an identity stored as admin whose email is not on the list.
C2_Witness ==
    \E r \in AuthEvents(State) :
        /\ r.login_user \in DOMAIN users
        /\ users[r.login_user].role = "admin"
        /\ ~AllowListed(State, users[r.login_user].email)
        /\ r.update_role = "user"

\* C3: every outcome of password login, OTP verification and the Google
\* callback that establishes a session has run the role check on that identity:
\* if its email is on the allow-list its stored role is admin afterwards.
C3_LoginPromotes ==
    \A r \in AuthEvents(State) :
        /\ r.st.users[r.login_user].is_verified
        /\ AllowListed(State, r.st.users[r.login_user].email)
               => r.st.users[r.login_user].role = "admin"

\* Each of the three paths logs in an allow-listed identity stored as user.
C3_Witness ==
    /\ \E r \in LoginOutcomes(State) : r.update_role = "admin"
    /\ \E r \in GoogleOutcomes(State) : r.update_role = "admin"

\* C4: the role check is idempotent: a login of an identity directly after a
\* login of the same identity (no edit of the allow-list in between) does not
\* call update_role and leaves the stored role as the first one left it.
C4_ReconcileIdempotent ==
    \A r1 \in AuthEvents(State) :
        \A r2 \in AuthEvents(r1.st) :
            r2.login_user = r1.login_user =>
                /\ r2.update_role = ""
                /\ r2.st.users[r2.login_user].role = r1.st.users[r1.login_user].role

\* A login that changes the stored role, followed by a second login of the
\* same identity.
C4_Witness ==
    \E r1 \in AuthEvents(State) :
        /\ r1.update_role # ""
        /\ \E r2 \in AuthEvents(r1.st) : r2.login_user = r1.login_user

\* C5 as written: register for an email whose user exists and is not verified
\* updates the password only: the stored role is as before, is_verified stays
\* false and no second user is inserted.
C5_RegisterKeepsRole ==
    \A c \in Clients, raw \in RawEmails, password \in Passwords,
       otp_code \in Codes, email_sent \in BOOLEAN :
        \A i \in DOMAIN users :
            (/\ ~Authenticated(State, c)
             /\ users[i].email = lower(strip(raw))
             /\ ~users[i].is_verified)
            => \A r \in register(State, c, raw, password, otp_code, email_sent) :
                   /\ r.st.users[i].password_hash = hashpw(password)
                   /\ r.st.users[i].role = users[i].role
                   /\ ~r.st.users[i].is_verified
                   /\ Len(r.st.users) = Len(users)

\* C5 amended: register for an email whose user exists and is not verified
\* updates the password and sets the stored role from the allow-list (admin if
\* the email is on it, user if not); is_verified stays false, google_id and
\* every other user are as before and no second user is inserted.
C5_RegisterUpdatesRole ==
    \A c \in Clients, raw \in RawEmails, password \in Passwords,
       otp_code \in Codes, email_sent \in BOOLEAN :
        \A i \in DOMAIN users :
            (/\ ~Authenticated(State, c)
             /\ users[i].email = lower(strip(raw))
             /\ ~users[i].is_verified)
            => \A r \in register(State, c, raw, password, otp_code, email_sent) :
                   /\ r.st.users[i].password_hash = hashpw(password)
                   /\ r.st.users[i].role =
                          IF AllowListed(State, users[i].email) THEN "admin" ELSE "user"
                   /\ ~r.st.users[i].is_verified
                   /\ r.st.users[i].google_id = users[i].google_id
                   /\ Len(r.st.users) = Len(users)
                   /\ \A j \in DOMAIN users : j # i => r.st.users[j] = users[j]

\* An unverified user stored as user whose email has been put on the allow-list
\* and a browser, not logged in, that can register for it again.
C5_Witness ==
    \E c \in Clients, i \in DOMAIN users :
        /\ ~Authenticated(State, c)
        /\ ~users[i].is_verified
        /\ users[i].role = "user"
        /\ AllowListed(State, users[i].email)
        /\ \E raw \in RawEmails, password \in Passwords :
               \E r \in register(State, c, raw, password, "123456", TRUE) :
                   /\ r.redirect = "auth.verify_otp"
                   /\ r.st.users[i].role = "admin"
                   /\ r.st.users[i].password_hash # users[i].password_hash

\* C6: a verified user with a password was verified by verify_otp, which
\* marked an OTP row of its email used; nothing else sets is_verified on an
\* unverified user that has a password.
C6_VerifiedOnlyByOtp ==
    \A i \in DOMAIN users :
        (users[i].password_hash # <<>> /\ users[i].is_verified)
            => \E k \in DOMAIN otps : otps[k].email = users[i].email /\ otps[k].used

\* C7: after a verify_otp with (email, code) has succeeded, a verify_otp that
\* presents the same (email, code) next, from a browser that is not logged in
\* and carries that pending email, is rejected as invalid or expired.  (Once the
\* email is verified register issues no code for it, so none is issued in between.)
C7_NoSecondVerify ==
    \A c1 \in Clients, otp_code \in Codes :
        \A r1 \in verify_otp(State, c1, otp_code) :
            r1.login_user # 0 =>
                \A c2 \in Clients :
                    (/\ ~Authenticated(r1.st, c2)
                     /\ r1.st.session[c2].pending_email = session[c1].pending_email)
                    => \A r2 \in verify_otp(r1.st, c2, otp_code) :
                           r2.login_user = 0 /\ r2.flash = "Invalid or expired OTP code."

\* The unused rows of (email, code) and their age.
UnusedRows(email, otp_code) ==
    {k \in DOMAIN otps :
        otps[k].email = email /\ otps[k].otp_code = otp_code /\ ~otps[k].used}

Age(k) == now - otps[k].created_at

\* A browser that verify_otp lets past its first two checks.
Pending(c) == ~Authenticated(State, c) /\ session[c].pending_email # <<>>

Accepted(c, otp_code) ==
    \A r \in verify_otp(State, c, otp_code) :
        r.login_user # 0 /\ r.flash = "Email verified successfully!"

Rejected(c, otp_code) ==
    \A r \in verify_otp(State, c, otp_code) :
        r.login_user = 0 /\ r.flash = "Invalid or expired OTP code."

\* C9 as written: verify_otp accepts a code iff an unused row of (email, code)
\* is younger than OTP_EXPIRY_MINUTES; at exactly that age it is rejected.
C9_ValidIffYounger ==
    \A c \in Clients, otp_code \in Codes :
        Pending(c) =>
            IF \E k \in UnusedRows(session[c].pending_email, otp_code) :
                   Age(k) < OTP_EXPIRY_MINUTES
            THEN Accepted(c, otp_code)
            ELSE Rejected(c, otp_code)

\* C9 amended: verify_otp accepts a code iff an unused row of (email, code) is
\* at most OTP_EXPIRY_MINUTES old; at exactly that age it is still accepted.
C9_ValidIffNotOlder ==
    \A c \in Clients, otp_code \in Codes :
        Pending(c) =>
            IF \E k \in UnusedRows(session[c].pending_email, otp_code) :
                   Age(k) <= OTP_EXPIRY_MINUTES
            THEN Accepted(c, otp_code)
            ELSE Rejected(c, otp_code)

\* The only unused row of the code presented is exactly OTP_EXPIRY_MINUTES old,
\* and the code is accepted.
C9_Witness ==
    \E c \in Clients, otp_code \in Codes :
        /\ Pending(c)
        /\ UnusedRows(session[c].pending_email, otp_code) # {}
        /\ \A k \in UnusedRows(session[c].pending_email, otp_code) :
               Age(k) = OTP_EXPIRY_MINUTES
        /\ Accepted(c, otp_code)

\* C10: a code whose unused rows are all older than OTP_EXPIRY_MINUTES is
\* rejected by verify_otp, and the rejection leaves every user, the unverified
\* one of that email included, and every OTP row as they were.
C10_ExpiredRejected ==
    \A c \in Clients, otp_code \in Codes :
        (/\ Pending(c)
         /\ UnusedRows(session[c].pending_email, otp_code) # {}
         /\ \A k \in UnusedRows(session[c].pending_email, otp_code) :
                Age(k) > OTP_EXPIRY_MINUTES)
        => /\ Rejected(c, otp_code)
           /\ \A r \in verify_otp(State, c, otp_code) :
                  r.st.users = users /\ r.st.otps = otps

\* An unverified user, its unused code older than the expiry, presented.
C10_Witness ==
    \E c \in Clients, otp_code \in Codes :
        /\ Pending(c)
        /\ UnusedRows(session[c].pending_email, otp_code) # {}
        /\ \A k \in UnusedRows(session[c].pending_email, otp_code) :
               Age(k) > OTP_EXPIRY_MINUTES
        /\ \E i \in DOMAIN users :
               users[i].email = session[c].pending_email /\ ~users[i].is_verified
        /\ Rejected(c, otp_code)

\* C8: under every interleaving of two verify_otp requests that present the
\* same (email, code), at most one succeeds for each OTP row of that code: two
\* browsers are logged in by the same code only if two rows hold it.
C8_ConsumedOnce ==
    \A c1 \in Clients, c2 \in Clients :
        (/\ c1 # c2
         /\ inflight[c1].pc = "verified"
         /\ inflight[c2].pc = "verified"
         /\ inflight[c1].pending_email = inflight[c2].pending_email
         /\ inflight[c1].otp_code = inflight[c2].otp_code)
        => Cardinality({k \in DOMAIN otps :
                           /\ otps[k].email = inflight[c1].pending_email
                           /\ otps[k].otp_code = inflight[c1].otp_code}) >= 2

\* The rows OTP.find_valid can return for (email, code): unused and at most
\* OTP_EXPIRY_MINUTES old.
ValidRows(email, otp_code) ==
    {k \in UnusedRows(email, otp_code) : Age(k) <= OTP_EXPIRY_MINUTES}

\* C11: a verify_otp that presents a code with no valid row (never issued for
\* the pending email, used, or expired) changes no state: every user and every
\* OTP row is as before, nobody is logged in and pending_email stays in the
\* session; the page is shown again with the invalid-or-expired message.
C11_RejectChangesNothing ==
    \A c \in Clients, otp_code \in Codes :
        (Pending(c) /\ ValidRows(session[c].pending_email, otp_code) = {})
        => \A r \in verify_otp(State, c, otp_code) :
               /\ r.st = State
               /\ r.login_user = 0
               /\ r.update_role = ""
               /\ r.redirect = ""
               /\ r.flash = "Invalid or expired OTP code."

\* A browser with a pending email for which one code is used and the other is
\* expired: both are presented and rejected.
C11_Witness ==
    \E c \in Clients, used_code \in Codes, expired_code \in Codes :
        /\ Pending(c)
        /\ \E k \in DOMAIN otps :
               /\ otps[k].email = session[c].pending_email
               /\ otps[k].otp_code = used_code
               /\ otps[k].used
               /\ Age(k) <= OTP_EXPIRY_MINUTES
        /\ UnusedRows(session[c].pending_email, used_code) = {}
        /\ \E k \in UnusedRows(session[c].pending_email, expired_code) :
               Age(k) > OTP_EXPIRY_MINUTES
        /\ Rejected(c, used_code)
        /\ Rejected(c, expired_code)

\* The users stored under the email a form value normalizes to.
UsersOf(us, raw) == {i \in DOMAIN us : us[i].email = lower(strip(raw))}

\* C12: for an email with no user, register(email, password) issues a code; a
\* verify_otp with a different code is rejected and leaves the user unverified;
\* a following verify_otp with the issued code, inside the expiry window, marks
\* the row used, sets is_verified, leaves the stored role as the allow-list
\* says and logs the user in; after a logout a login with that password succeeds.
C12_RegisterVerifyLogin ==
    \A c \in Clients, raw \in RawEmails, password \in Passwords, otp_code \in Codes,
       d \in {0, OTP_EXPIRY_MINUTES - 1} :
        (~Authenticated(State, c) /\ UsersOf(users, raw) = {})
        => \A r1 \in register(State, c, raw, password, otp_code, TRUE) :
           \A other \in Codes \ {otp_code} :
           \A r2 \in verify_otp(r1.st, c, other) :
           \A r3 \in verify_otp([r2.st EXCEPT !.now = @ + d], c, otp_code) :
           \A r4 \in logout(r3.st, c) :
           \A r5 \in login(r4.st, c, raw, password) :
               LET i == Len(users) + 1
               IN  /\ UsersOf(r1.st.users, raw) = {i}
                   /\ r1.redirect = "auth.verify_otp"
                   /\ r2.flash = "Invalid or expired OTP code."
                   /\ r2.login_user = 0
                   /\ ~r2.st.users[i].is_verified
                   /\ r3.login_user = i
                   /\ r3.st.users[i].is_verified
                   /\ r3.st.otps[Len(otps) + 1].used
                   /\ r3.st.users[i].role =
                          IF AllowListed(State, r1.st.users[i].email) THEN "admin" ELSE "user"
                   /\ r5.login_user = i
                   /\ r5.redirect = "uploads.gallery"

\* A user that went this way: created by register, verified by a used code,
\* logged out again, and a login with its password succeeds.
C12_Witness ==
    \E c \in Clients, i \in DOMAIN users, k \in DOMAIN otps :
        /\ ~Authenticated(State, c)
        /\ users[i].is_verified
        /\ users[i].google_id = ""
        /\ users[i].password_hash = hashpw("pw1")
        /\ otps[k].email = users[i].email /\ otps[k].used
        /\ \A r \in login(State, c, <<"A">>, "pw1") : r.login_user = i

\* C13: register for an email whose user exists and is verified is rejected and
\* changes nothing: password and stored role are as before, no OTP row is
\* created, pending_email is not set, and the form is shown again.
C13_VerifiedRegisterRejected ==
    \A c \in Clients, raw \in RawEmails, password \in Passwords,
       otp_code \in Codes, email_sent \in BOOLEAN :
        (/\ ~Authenticated(State, c)
         /\ \E i \in UsersOf(users, raw) : users[i].is_verified)
        => \A r \in register(State, c, raw, password, otp_code, email_sent) :
               /\ r.st = State
               /\ r.login_user = 0
               /\ r.redirect # "auth.verify_otp"
               /\ r.flash = "Email is already registered and verified. Please login instead."

\* A verified user with password pw1 whose stored role differs from what the
\* allow-list says now, and a register for its email with pw2 that is rejected.
C13_Witness ==
    \E c \in Clients, i \in DOMAIN users :
        /\ ~Authenticated(State, c)
        /\ session[c].pending_email = <<>>
        /\ users[i].is_verified
        /\ users[i].password_hash = hashpw("pw1")
        /\ users[i].role = "user"
        /\ AllowListed(State, users[i].email)
        /\ \A r \in register(State, c, <<"a", " ">>, "pw2", "123456", TRUE) :
               r.st = State /\ r.redirect = ""

\* C14: register for an email that has no user or an unverified one leaves
\* exactly one user for that email, however often it is repeated, and every
\* call appends one OTP row for the email that is unused, created now, and
\* accepted by OTP.find_valid at that moment.
C14_RegisterIdempotent ==
    \A c \in Clients, raw \in RawEmails, password \in Passwords,
       otp_code \in Codes, email_sent \in BOOLEAN :
        (/\ ~Authenticated(State, c)
         /\ \A i \in UsersOf(users, raw) : ~users[i].is_verified)
        => \A r \in register(State, c, raw, password, otp_code, email_sent) :
               /\ Cardinality(UsersOf(r.st.users, raw)) = 1
               /\ Len(r.st.otps) = Len(otps) + 1
               /\ SubSeq(r.st.otps, 1, Len(otps)) = otps
               /\ r.st.otps[Len(otps) + 1] =
                      [email |-> lower(strip(raw)), otp_code |-> otp_code,
                       created_at |-> now, used |-> FALSE]
               /\ find_valid(r.st.otps, r.st.now, lower(strip(raw)), otp_code)

\* The email has been registered twice: one unverified user and two OTP rows
\* for it, and a third register would again leave one user.
C14_Witness ==
    \E i \in DOMAIN users :
        /\ ~users[i].is_verified
        /\ Cardinality({k \in DOMAIN otps : otps[k].email = users[i].email}) = 2
        /\ \E c \in Clients :
               /\ ~Authenticated(State, c)
               /\ \A r \in register(State, c, <<"A">>, "pw2", "654321", TRUE) :
                      Cardinality(UsersOf(r.st.users, <<"A">>)) = 1

\* C15: under every interleaving of register requests (and Google first
\* logins) the users collection holds at most one user for an email.
C15_EmailUnique ==
    \A i \in DOMAIN users, j \in DOMAIN users :
        users[i].email = users[j].email => i = j

\* C16: a code that is outstanding for an email (unused, not expired) still
\* satisfies verify_otp after register has issued another code for that email,
\* and so does the new one; after one of them was used to verify, the other
\* one still satisfies a verify_otp of another browser waiting on that email.
C16_OlderCodeStaysValid ==
    \A c \in Clients, raw \in RawEmails, password \in Passwords,
       old_code \in Codes, new_code \in Codes, email_sent \in BOOLEAN :
        (/\ ~Authenticated(State, c)
         /\ \A i \in UsersOf(users, raw) : ~users[i].is_verified
         /\ ValidRows(lower(strip(raw)), old_code) # {})
        => \A r1 \in register(State, c, raw, password, new_code, email_sent) :
               /\ \A r2 \in verify_otp(r1.st, c, old_code) : r2.login_user # 0
               /\ \A r2 \in verify_otp(r1.st, c, new_code) :
                      /\ r2.login_user # 0
                      /\ \A c2 \in Clients :
                             (/\ ~Authenticated(r2.st, c2)
                              /\ r2.st.session[c2].pending_email = lower(strip(raw)))
                             => \A r3 \in verify_otp(r2.st, c2, old_code) :
                                    r3.login_user # 0

\* Two codes are outstanding for one email, the older issued before the newer,
\* and a browser waiting on that email is accepted with either.
C16_Witness ==
    \E c \in Clients, k1 \in DOMAIN otps, k2 \in DOMAIN otps :
        /\ Pending(c)
        /\ k1 < k2
        /\ otps[k1].otp_code # otps[k2].otp_code
        /\ otps[k1].created_at < otps[k2].created_at
        /\ k1 \in ValidRows(session[c].pending_email, otps[k1].otp_code)
        /\ k2 \in ValidRows(session[c].pending_email, otps[k2].otp_code)
        /\ Accepted(c, otps[k1].otp_code)
        /\ Accepted(c, otps[k2].otp_code)

\* How a gate answered: "" when it called the view, else the kind of denial.
Denial(r) ==
    IF r.flash = "" /\ r.redirect = "" THEN ""
    ELSE IF r.redirect = "auth.login" THEN "Unauthenticated"
    ELSE IF r.flash \in {"Please verify your email before accessing this page.",
                         "Email verification required"}
    THEN "NotVerified"
    ELSE "Forbidden"

\* Effectively privileged: on the allow-list now, or stored as admin.
Privileged(u) == AllowListed(State, u.email) \/ u.role = "admin"

\* What the three checks, made in order and stopped at the first that fails, give.
Gate(c, role_ok(_)) ==
    IF session[c].user_id = 0 THEN "Unauthenticated"
    ELSE IF ~users[session[c].user_id].is_verified THEN "NotVerified"
    ELSE IF ~role_ok(users[session[c].user_id]) THEN "Forbidden"
    ELSE ""

\* C17: admin_required calls the view iff the browser is logged in, the user
\* is verified, and its email is on the allow-list now or its stored role is
\* admin; checked in that order: nobody logged in is sent to the login page, an
\* unverified user is denied as not verified even when its email is on the
\* allow-list, a verified user that is not privileged is denied as forbidden.
C17_AdminRequired ==
    \A c \in Clients, is_api \in BOOLEAN :
        \A r \in admin_required(State, c, is_api) :
            /\ Denial(r) = Gate(c, Privileged)
            /\ r.st.users = users /\ r.st.session = session

\* An unverified user whose email is on the allow-list and a verified one that
\* is not privileged are logged in: the first is denied as not verified, the
\* second as forbidden.
C17_Witness ==
    \E c1 \in Clients, c2 \in Clients :
        /\ session[c1].user_id # 0
        /\ ~users[session[c1].user_id].is_verified
        /\ AllowListed(State, users[session[c1].user_id].email)
        /\ \A r \in admin_required(State, c1, FALSE) : Denial(r) = "NotVerified"
        /\ session[c2].user_id # 0
        /\ users[session[c2].user_id].is_verified
        /\ ~Privileged(users[session[c2].user_id])
        /\ \A r \in admin_required(State, c2, FALSE) : Denial(r) = "Forbidden"

\* C18: user_only calls the view iff the browser is logged in, the user is
\* verified, and it is not privileged (its email is not on the allow-list now
\* and its stored role is not admin); an unverified user is denied as not
\* verified before its role is looked at, a verified privileged one is denied
\* as forbidden.
C18_UserOnly ==
    \A c \in Clients, is_api \in BOOLEAN :
        \A r \in user_only(State, c, is_api) :
            /\ Denial(r) = Gate(c, LAMBDA u : ~Privileged(u))
            /\ r.st.users = users /\ r.st.session = session

\* An unverified user stored as admin and a verified user that is privileged
\* only through the allow-list are logged in: the first is denied as not
\* verified, the second as forbidden.
C18_Witness ==
    \E c1 \in Clients, c2 \in Clients :
        /\ session[c1].user_id # 0
        /\ ~users[session[c1].user_id].is_verified
        /\ users[session[c1].user_id].role = "admin"
        /\ \A r \in user_only(State, c1, TRUE) : Denial(r) = "NotVerified"
        /\ session[c2].user_id # 0
        /\ users[session[c2].user_id].is_verified
        /\ users[session[c2].user_id].role = "user"
        /\ AllowListed(State, users[session[c2].user_id].email)
        /\ \A r \in user_only(State, c2, TRUE) : Denial(r) = "Forbidden"

\* C19: verified_user_required calls the view iff the browser is logged in and
\* the user is verified, whatever its stored role and the allow-list; nobody
\* logged in is sent to the login page and an unverified user is denied as not
\* verified.  The gate reads neither the allow-list nor writes anything.
C19_VerifiedUserRequired ==
    \A c \in Clients, is_api \in BOOLEAN :
        \A r \in verified_user_required(State, c, is_api) :
            /\ Denial(r) = Gate(c, LAMBDA u : TRUE)
            /\ r.st = State

\* One browser is not logged in, the other is logged in as an unverified user
\* stored as admin whose email is on the allow-list.
C19_Witness ==
    \E c1 \in Clients, c2 \in Clients :
        /\ session[c1].user_id = 0
        /\ \A r \in verified_user_required(State, c1, FALSE) :
               Denial(r) = "Unauthenticated"
        /\ session[c2].user_id # 0
        /\ ~users[session[c2].user_id].is_verified
        /\ Privileged(users[session[c2].user_id])
        /\ \A r \in verified_user_required(State, c2, FALSE) :
               Denial(r) = "NotVerified"

\* The state after the .env file was replaced by `file`.
Edited(file) == [State EXCEPT !.envFile = file]

\* The email is on the allow-list written in `file`, as a process that has not
\* read any .env file before reads it.
InFile(file, email) ==
    is_admin_email([envFile |-> file, osEnviron |-> EmptyEnviron], email)

\* C20: when an edit of the .env file puts the email of a logged-in, verified
\* user stored as user on the allow-list, the very next request of that user is
\* let through by admin_required and denied as forbidden by user_only, with no
\* login, role update or restart in between; the stored role stays user.
C20_AllowListImmediate ==
    \A c \in Clients, file \in EnvFiles, is_api \in BOOLEAN :
        (/\ Authenticated(State, c)
         /\ current_user(State, c).is_verified
         /\ current_user(State, c).role = "user"
         /\ ~InFile(envFile, current_user(State, c).email)
         /\ InFile(file, current_user(State, c).email))
        => /\ \A r \in admin_required(Edited(file), c, is_api) :
                  Denial(r) = "" /\ r.st.users = users
           /\ \A r \in user_only(Edited(file), c, is_api) :
                  Denial(r) = "Forbidden" /\ r.st.users = users

\* The email of a logged-in verified user stored as user has been put on the
\* allow-list by an edit that os.environ does not show yet; admin_required
\* lets its request through.
C20_Witness ==
    \E c \in Clients :
        /\ Authenticated(State, c)
        /\ current_user(State, c).is_verified
        /\ current_user(State, c).role = "user"
        /\ InFile(envFile, current_user(State, c).email)
        /\ osEnviron # envFile
        /\ \A r \in admin_required(State, c, FALSE) : Denial(r) = ""
        /\ \A r \in user_only(State, c, FALSE) : Denial(r) = "Forbidden"

\* The value `file` gives a key, stripped; empty when the key is not in it.
FileValue(file, key) == IF file[key] = NoEntry THEN <<>> ELSE strip(file[key])

\* The normalized email is one of the entries written in ADMIN_EMAILS of `file`.
Listed(file, email) ==
    \E k \in DOMAIN split(FileValue(file, "ADMIN_EMAILS")) :
        /\ strip(split(FileValue(file, "ADMIN_EMAILS"))[k]) # <<>>
        /\ lower(strip(split(FileValue(file, "ADMIN_EMAILS"))[k])) = lower(strip(email))

\* C21: is_admin_email reads the .env file on every call: whatever an earlier
\* call left in os.environ, once the file is edited to an ADMIN_EMAILS value
\* that still has entries, the next call answers by the entries of the new
\* value: false for an email that was removed, true for one that was added.
C21_RereadsOnEveryCall ==
    \A file \in ConfigFiles, email \in Queries :
        FileValue(file, "ADMIN_EMAILS") # <<>>
            => (is_admin_email(Edited(file), email) <=> Listed(file, email))

\* os.environ still holds a list with the email of an earlier read, the file
\* holds another list without it, and the call answers false; and the same
\* the other way round for an email the file now adds.
C21_Witness ==
    /\ FileValue(envFile, "ADMIN_EMAILS") # <<>>
    /\ Listed(osEnviron, <<"A">>)
    /\ ~Listed(envFile, <<"A">>)
    /\ ~is_admin_email(State, <<"A">>)
    /\ \E file \in ConfigFiles :
           Listed(file, <<"A">>) /\ is_admin_email(Edited(file), <<"A">>)

\* C22: when the .env file has neither an ADMIN_EMAILS nor an ADMIN_EMAIL
\* entry (or only empty ones), is_admin_email is false for every email, also
\* when an earlier call of the process read a list that was not empty.
C22_EmptyMeansNobody ==
    (FileValue(envFile, "ADMIN_EMAILS") = <<>> /\ FileValue(envFile, "ADMIN_EMAIL") = <<>>)
        => \A email \in Queries : ~is_admin_email(State, email)

\* C23: is_admin_email compares trimmed and lowercased: a query that equals an
\* entry of the list in force up to case and surrounding blanks gives true, an
\* empty or blank query gives false, and so does one that equals no entry.
C23_NormalizedComparison ==
    LET environ == load_dotenv(envFile, osEnviron)
        value == strip(environ_get(environ, "ADMIN_EMAILS"))
        entries == IF value # <<>> THEN split(value)
                   ELSE <<environ_get(environ, "ADMIN_EMAIL")>>
        Matches(email) ==
            \E k \in DOMAIN entries :
                strip(entries[k]) # <<>> /\ lower(strip(entries[k])) = lower(strip(email))
    IN  \A email \in Queries :
            /\ strip(email) = <<>> => ~is_admin_email(State, email)
            /\ strip(email) # <<>> => (is_admin_email(State, email) <=> Matches(email))

\* The list in force has the entry " A" (capital, leading blank); the queries
\* "A" and "a " are both answered true, the blank query and "c" false.
C23_Witness ==
    /\ envFile["ADMIN_EMAILS"] = <<" ", "A", ",", "b">>
    /\ is_admin_email(State, <<"A">>)
    /\ is_admin_email(State, <<"a", " ">>)
    /\ is_admin_email(State, <<" ", "B">>)
    /\ ~is_admin_email(State, <<" ">>)
    /\ ~is_admin_email(State, <<"c">>)

\* The users that were created by a Google login: they have no password.
GoogleCreated == {i \in DOMAIN users : users[i].password_hash = <<>>}

\* C24: a user created by a Google login is verified from its creation, holds
\* the google id and no password, and never gets one: no step gives it a
\* password, register for its email is rejected as already verified and
\* changes nothing, and a login with its email fails for every password.
C24_GoogleUserHasNoPassword ==
    /\ [](\A i \in GoogleCreated :
            /\ users[i].is_verified
            /\ users[i].google_id # ""
            /\ \A c \in Clients, raw \in RawEmails, password \in Passwords :
                   (~Authenticated(State, c) /\ i \in UsersOf(users, raw))
                   => /\ \A r \in register(State, c, raw, password, "123456", TRUE) :
                             r.st = State /\ r.redirect # "auth.verify_otp"
                      /\ \A r \in login(State, c, raw, password) :
                             /\ r.st = State
                             /\ r.login_user = 0
                             /\ r.flash = "Invalid email or password.")
    /\ [][\A i \in GoogleCreated : users'[i].password_hash = <<>>]_vars

\* A user created by a Google login and a browser that is not logged in, whose
\* register and whose password login for that email are both refused.
C24_Witness ==
    \E i \in GoogleCreated, c \in Clients :
        /\ ~Authenticated(State, c)
        /\ \A r \in register(State, c, <<"A">>, "pw1", "123456", TRUE) : r.st = State
        /\ \A r \in login(State, c, <<"A">>, "pw1") : r.login_user = 0

\* C26: whether the delivery of the code succeeds or not, register for an
\* email that is not verified leaves the same state: the user exists, the new
\* OTP row is stored and accepted by verify_otp, pending_email is in the
\* session and the browser is redirected to the verification page; only the
\* message differs.
C26_DeliveryFailureKeepsState ==
    \A c \in Clients, raw \in RawEmails, password \in Passwords, otp_code \in Codes :
        (/\ ~Authenticated(State, c)
         /\ \A i \in UsersOf(users, raw) : ~users[i].is_verified)
        => /\ {r.st : r \in register(State, c, raw, password, otp_code, FALSE)}
                = {r.st : r \in register(State, c, raw, password, otp_code, TRUE)}
           /\ \A r \in register(State, c, raw, password, otp_code, FALSE) :
                  /\ r.flash = "Failed to send OTP email."
                  /\ r.redirect = "auth.verify_otp"
                  /\ Cardinality(UsersOf(r.st.users, raw)) = 1
                  /\ r.st.otps[Len(otps) + 1] =
                         OTP_create(lower(strip(raw)), otp_code, now)
                  /\ r.st.session[c].pending_email = lower(strip(raw))
                  /\ \A v \in verify_otp(r.st, c, otp_code) : v.login_user # 0

\* A browser whose register ended with the failure message: it carries the
\* pending email, the user is stored unverified, and the code is accepted.
C26_Witness ==
    \E c \in Clients, k \in DOMAIN otps :
        /\ Pending(c)
        /\ otps[k].email = session[c].pending_email
        /\ k \in ValidRows(otps[k].email, otps[k].otp_code)
        /\ \E i \in DOMAIN users :
               users[i].email = session[c].pending_email /\ ~users[i].is_verified
        /\ Accepted(c, otps[k].otp_code)
        /\ \E r \in register(State, c, <<"A">>, "pw1", "123456", FALSE) :
               r.flash = "Failed to send OTP email." /\ r.redirect = "auth.verify_otp"

\* C29: when several OTP rows hold the same (email, code), a verify_otp that
\* succeeds marks a row that made the code valid: the number of valid rows of
\* that (email, code) is one less afterwards.
C29_ValidRowConsumed ==
    \A c \in Clients, otp_code \in Codes :
        \A r \in verify_otp(State, c, otp_code) :
            r.login_user # 0 =>
                Cardinality({k \in DOMAIN r.st.otps :
                                /\ r.st.otps[k].email = session[c].pending_email
                                /\ r.st.otps[k].otp_code = otp_code
                                /\ ~r.st.otps[k].used
                                /\ now - r.st.otps[k].created_at <= OTP_EXPIRY_MINUTES})
                    = Cardinality(ValidRows(session[c].pending_email, otp_code)) - 1

\* C28: verify_otp acts on session['pending_email'] only.  Without it the
\* request is sent back to register and nothing changes.  With it the code is
\* looked up under that email alone: a code that is valid for another email is
\* rejected, and a success logs in the user of that email and touches no row
\* and no user of another email.  register puts its own email in the session
\* in place of an earlier one; a success removes it and a rejection keeps it.
C28_VerifyUsesSessionEmail ==
    \A c \in Clients, otp_code \in Codes :
        /\ (~Authenticated(State, c) /\ session[c].pending_email = <<>>)
           => \A r \in verify_otp(State, c, otp_code) :
                  /\ r.st = State
                  /\ r.login_user = 0
                  /\ r.flash = "Please register first."
        /\ Pending(c)
           => \A r \in verify_otp(State, c, otp_code) :
                  IF ValidRows(session[c].pending_email, otp_code) = {}
                  THEN r.st = State /\ r.login_user = 0
                  ELSE /\ r.login_user \in UsersOf(users, session[c].pending_email)
                       /\ r.st.session[c].pending_email = <<>>
                       /\ \A k \in DOMAIN otps :
                              otps[k].email # session[c].pending_email
                                  => r.st.otps[k] = otps[k]
                       /\ \A i \in DOMAIN users :
                              users[i].email # session[c].pending_email
                                  => r.st.users[i] = users[i]
        /\ \A raw \in TwoEmails :
               \A r \in register(State, c, raw, "pw1", otp_code, TRUE) :
                   r.redirect = "auth.verify_otp"
                       => r.st.session[c].pending_email = lower(strip(raw))

\* A browser waits on one email and presents a code that is valid for the
\* other email only: it is rejected; and a register for the other email would
\* replace the email it waits on.
C28_Witness ==
    \E c \in Clients, otp_code \in Codes, k \in DOMAIN otps :
        /\ Pending(c)
        /\ otps[k].email # session[c].pending_email
        /\ k \in ValidRows(otps[k].email, otp_code)
        /\ ValidRows(session[c].pending_email, otp_code) = {}
        /\ Rejected(c, otp_code)
        /\ \E raw \in TwoEmails :
               \E r \in register(State, c, raw, "pw1", otp_code, TRUE) :
                   r.st.session[c].pending_email = otps[k].email

\* C27: two verify_otp requests of the same user may interleave in any way:
\* when the role check of the second one is done, the stored role is what one
\* role check against the allow-list of that moment stores (admin if the email
\* is on it, user if not).
C27_ConcurrentReconcile ==
    [][\A c \in Clients, c2 \in Clients :
          (/\ c2 # c
           /\ inflight[c].pc = "update_role"
           /\ inflight'[c].pc = "verify"
           /\ inflight[c2].pc \in {"verify", "verified"}
           /\ inflight[c2].user = inflight[c].user)
          => users'[inflight[c].user].role =
                 IF AllowListed(State, users[inflight[c].user].email)
                 THEN "admin" ELSE "user"]_vars

\* C25: after any sequence and any interleaving of Google logins at most one
\* user holds a given google id.
C25_GoogleIdUnique ==
    \A i \in DOMAIN users, j \in DOMAIN users :
        (users[i].google_id # "" /\ users[i].google_id = users[j].google_id) => i = j

\* C30: a logged-in, verified user that is not privileged creates chat
\* messages under its own id only and lists its own thread only: a request
\* that names another user id is answered 403 and stores nothing.  The
\* sender_role stored with a message is the effective role of its sender at
\* that moment (admin if its email is on the allow-list or it is stored as
\* admin, else user).
C30_ChatOwnThreadOnly ==
    \A c \in Clients :
        (session[c].user_id # 0 /\ users[session[c].user_id].is_verified)
        => LET me == session[c].user_id
               effective == IF Privileged(users[me]) THEN "admin" ELSE "user"
           IN  /\ \A user_id \in ChatUserIds \cup {0}, message \in ChatTexts :
                      \A r \in send_message(State, c, user_id, message) :
                          /\ (effective = "user" /\ user_id \notin {0, me})
                                 => r.status = "403" /\ r.st.chat_messages = chat_messages
                          /\ r.st.chat_messages # chat_messages
                                 => /\ r.status = "200"
                                    /\ Len(r.st.chat_messages) = Len(chat_messages) + 1
                                    /\ SubSeq(r.st.chat_messages, 1, Len(chat_messages))
                                           = chat_messages
                                    /\ r.st.chat_messages[Len(chat_messages) + 1].sender_role
                                           = effective
                                    /\ effective = "user" =>
                                           r.st.chat_messages[Len(chat_messages) + 1].user_id = me
               /\ \A user_id \in ChatUserIds, is_api \in BOOLEAN :
                      \A r \in list_messages(State, c, user_id, is_api) :
                          /\ r.st.chat_messages = chat_messages
                          /\ effective = "user" =>
                                 IF user_id # me
                                 THEN r.status = "403" /\ r.messages = <<>>
                                 ELSE /\ r.status = "200"
                                      /\ \A k \in DOMAIN r.messages : r.messages[k].user_id = me
                                      /\ Len(r.messages) =
                                             Cardinality({k \in DOMAIN chat_messages :
                                                            chat_messages[k].user_id = me})

\* A verified user that is not privileged has a message in its own thread and
\* another user has one too; it is refused the other thread, gets its own, and
\* a message it sends for the other user is refused.
C30_Witness ==
    \E c \in Clients, other \in DOMAIN users :
        /\ session[c].user_id # 0
        /\ other # session[c].user_id
        /\ users[session[c].user_id].is_verified
        /\ ~Privileged(users[session[c].user_id])
        /\ \E k \in DOMAIN chat_messages :
               /\ chat_messages[k].user_id = session[c].user_id
               /\ chat_messages[k].sender_role = "user"
        /\ \E k \in DOMAIN chat_messages : chat_messages[k].user_id = other
        /\ \A r \in list_messages(State, c, other, TRUE) : r.status = "403"
        /\ \A r \in list_messages(State, c, session[c].user_id, TRUE) :
               Len(r.messages) = 1
        /\ \A r \in send_message(State, c, other, <<"h", "i", " ">>) : r.status = "403"

\* C31: every logged-in browser belongs to a verified user, every outcome of
\* password login, OTP verification and the Google callback that calls
\* login_user does so for a user that is verified afterwards, and a password
\* login of an unverified user with the right password is refused: nobody is
\* logged in, no role is updated and the state is left as it was.
C31_SessionsAreVerified ==
    /\ \A c \in Clients : Authenticated(State, c) => current_user(State, c).is_verified
    /\ \A r \in AuthEvents(State) :
           \A c \in Clients :
               Authenticated(r.st, c) => current_user(r.st, c).is_verified
    /\ \A c \in Clients, raw \in RawEmails, password \in Passwords :
           (/\ ~Authenticated(State, c)
            /\ \A i \in find_by_email(users, raw) :
                   /\ i # 0
                   /\ ~users[i].is_verified
                   /\ check_password(users[i], password))
           => \A r \in login(State, c, raw, password) :
                  /\ r.st = State
                  /\ r.login_user = 0
                  /\ r.update_role = ""
                  /\ r.flash = "Please verify your email before logging in."

\* A registered, unverified user whose right password is presented by a
\* browser that is not logged in.
C31_Witness ==
    \E c \in Clients, raw \in RawEmails, password \in Passwords :
        /\ ~Authenticated(State, c)
        /\ \A i \in find_by_email(users, raw) :
               i # 0 /\ ~users[i].is_verified /\ check_password(users[i], password)
        /\ \A r \in login(State, c, raw, password) : r.st = State /\ r.login_user = 0

\* C32: when two browsers register the same unverified email one after the
\* other with different passwords, and the first then verifies with the code
\* its own register call issued, the user that becomes verified has the
\* password given in that first call, not the one of the later call.
C32_CredentialOfConsumedCode ==
    \A c1 \in Clients, c2 \in Clients, raw \in RawEmails,
       pw1 \in Passwords, pw2 \in Passwords, x \in Codes, y \in Codes :
        (/\ c1 # c2 /\ pw1 # pw2 /\ x # y
         /\ ~Authenticated(State, c1) /\ ~Authenticated(State, c2)
         /\ \A k \in DOMAIN otps : otps[k].otp_code # x)
        => \A r1 \in register(State, c1, raw, pw1, x, TRUE) :
           \A r2 \in register(r1.st, c2, raw, pw2, y, TRUE) :
           \A r3 \in verify_otp(r2.st, c1, x) :
               r3.login_user # 0 =>
                   check_password(r3.st.users[r3.login_user], pw1)

\* C33: a step of a register request never changes the password hash of a
\* user that is verified when the step is taken, whatever other requests for
\* the same email ran between the steps of that register request.
C33_VerifiedCredentialKept ==
    [][\A i \in DOMAIN users :
           users[i].is_verified =>
               /\ i \in DOMAIN users'
               /\ users'[i].password_hash = users[i].password_hash]_vars

\* C34: a browser that still carries a pending email whose user is already
\* verified is not logged in by verify_otp, whatever code it presents.
C34_NoSessionByCodeOnceVerified ==
    \A c \in Clients, otp_code \in Codes :
        (/\ Pending(c)
         /\ UsersOf(users, session[c].pending_email) # {}
         /\ \A i \in UsersOf(users, session[c].pending_email) : users[i].is_verified)
        => \A r \in verify_otp(State, c, otp_code) :
               r.login_user = 0 /\ ~Authenticated(r.st, c)

\* C35: after every outcome of password login, OTP verification and the Google
\* callback that calls login_user, the stored role of the user logged in is
\* admin exactly when the allow-list held its email when the request was
\* handled, whether the user was stored before or is created by the request.
C35_RoleMatchesAllowListAtEvent ==
    \A r \in AuthEvents(State) :
        LET u == r.st.users[r.login_user]
        IN  /\ u.role \in {"admin", "user"}
            /\ u.role = "admin" <=> AllowListed(State, u.email)

\* An OTP verification of a user stored as admin whose email is no longer on
\* the allow-list: it is demoted.
C35_Witness ==
    \E r \in VerifyOutcomes(State) :
        /\ r.login_user \in DOMAIN users
        /\ users[r.login_user].role = "admin"
        /\ ~AllowListed(State, users[r.login_user].email)
        /\ r.st.users[r.login_user].role = "user"

\* C36: a logged-in, verified user whose email is not on the allow-list written
\* in the .env file is denied as forbidden by admin_required on its next
\* request, also when it logged in while its email was still on the list.
C36_RemovalRevokes ==
    \A c \in Clients, is_api \in BOOLEAN :
        (/\ Authenticated(State, c)
         /\ current_user(State, c).is_verified
         /\ ~InFile(envFile, current_user(State, c).email)
         /\ ~is_admin_email(State, current_user(State, c).email))
        => \A r \in admin_required(State, c, is_api) : Denial(r) = "Forbidden"

\* C37: for a logged-in, verified user, in one and the same state, exactly one
\* of admin_required and user_only calls the view; the other denies it as
\* forbidden.
C37_ExactlyOneGateAllows ==
    \A c \in Clients, is_api \in BOOLEAN :
        (Authenticated(State, c) /\ current_user(State, c).is_verified)
        => \A ra \in admin_required(State, c, is_api) :
           \A ru \in user_only(State, c, is_api) :
               /\ Denial(ra) = "" <=> Denial(ru) # ""
               /\ {Denial(ra), Denial(ru)} = {"", "Forbidden"}

\* Two logged-in verified users stored as user: the email of the first is on
\* the allow-list and only admin_required lets it through, the email of the
\* second is not and only user_only lets it through.
C37_Witness ==
    \E c1 \in Clients, c2 \in Clients :
        /\ Authenticated(State, c1) /\ Authenticated(State, c2)
        /\ current_user(State, c1).is_verified /\ current_user(State, c2).is_verified
        /\ current_user(State, c1).role = "user"
        /\ AllowListed(State, current_user(State, c1).email)
        /\ \A r \in admin_required(State, c1, FALSE) : Denial(r) = ""
        /\ \A r \in user_only(State, c1, FALSE) : Denial(r) = "Forbidden"
        /\ \A r \in admin_required(State, c2, FALSE) : Denial(r) = "Forbidden"
        /\ \A r \in user_only(State, c2, FALSE) : Denial(r) = ""

(* ------------------------------ redirects ----------------------------- *)
\* GET of the three forms: a logged-in browser is sent to the gallery, any
\* other is shown the form (verify_otp: sent to register without pending email).
register_GET(S, c) ==
    IF Authenticated(S, c) THEN {Outcome(S, "", "uploads.gallery")}
    ELSE {Outcome(S, "", "")}

login_GET(S, c) ==
    IF Authenticated(S, c) THEN {Outcome(S, "", "uploads.gallery")}
    ELSE {Outcome(S, "", "")}

verify_otp_GET(S, c) ==
    IF Authenticated(S, c) THEN {Outcome(S, "", "uploads.gallery")}
    ELSE IF S.session[c].pending_email = <<>>
    THEN {Outcome(S, "Please register first.", "auth.register")}
    ELSE {Outcome(S, "", "")}

\* The endpoints redirects point to, and the GET request each one stands for:
\* the gallery is behind user_only, the dashboard behind admin_required.
Endpoints ==
    {"index", "auth.login", "auth.register", "auth.verify_otp",
     "uploads.gallery", "admin.dashboard"}

view(S, c, endpoint) ==
    CASE endpoint = "index" -> index_route(S, c)
      [] endpoint = "auth.login" -> login_GET(S, c)
      [] endpoint = "auth.register" -> register_GET(S, c)
      [] endpoint = "auth.verify_otp" -> verify_otp_GET(S, c)
      [] endpoint = "uploads.gallery" -> user_only(S, c, FALSE)
      [] endpoint = "admin.dashboard" -> admin_required(S, c, FALSE)

\* The browser follows redirects from `endpoint` until a page is rendered, or
\* until it is sent to an endpoint it has already asked for (cycle).
RECURSIVE follow(_, _, _, _)
follow(S, c, endpoint, visited) ==
    UNION {IF r.redirect = ""
           THEN {[page |-> endpoint, hops |-> Cardinality(visited), cycle |-> FALSE,
                  st |-> r.st]}
           ELSE IF r.redirect \in visited \cup {endpoint}
           THEN {[page |-> r.redirect, hops |-> Cardinality(visited) + 1,
                  cycle |-> TRUE, st |-> r.st]}
           ELSE follow(r.st, c, r.redirect, visited \cup {endpoint}) :
               r \in view(S, c, endpoint)}

\* C38: for every logged-in browser and every endpoint it asks for, following
\* the redirects of the gates and of index, login, register and verify_otp
\* ends, after at most two redirects and without asking for an endpoint
\* twice, at the gallery or the dashboard, whose gate calls the view; users
\* and the .env file are left as they were.
C38_RedirectsTerminate ==
    \A c \in Clients, endpoint \in Endpoints :
        Authenticated(State, c)
        => \A p \in follow(State, c, endpoint, {}) :
               /\ ~p.cycle
               /\ p.hops <= 2
               /\ p.page \in {"uploads.gallery", "admin.dashboard"}
               /\ \A r \in view(p.st, c, p.page) : Denial(r) = ""
               /\ p.st.users = users /\ p.st.envFile = envFile

\* A logged-in user stored as admin and off the allow-list asks for the login
\* page: it is sent to the gallery, denied there by user_only, sent to the
\* dashboard and let in.
C38_Witness ==
    \E c \in Clients :
        /\ Authenticated(State, c)
        /\ current_user(State, c).role = "admin"
        /\ ~AllowListed(State, current_user(State, c).email)
        /\ \A p \in follow(State, c, "auth.login", {}) :
               p.page = "admin.dashboard" /\ p.hops = 2 /\ ~p.cycle

\* C39: in every state a user with a google_id is verified, and no step turns
\* is_verified of a user or used of an OTP row from true to false, removes a
\* user or an OTP row, or changes the email of a user or the email, code or
\* creation time of an OTP row.
C39_VerificationMonotone ==
    /\ [](\A i \in DOMAIN users : users[i].google_id # "" => users[i].is_verified)
    /\ [][/\ Len(users') >= Len(users)
          /\ Len(otps') >= Len(otps)
          /\ \A i \in DOMAIN users :
                 /\ users'[i].email = users[i].email
                 /\ users[i].is_verified => users'[i].is_verified
                 /\ users[i].google_id # "" => users'[i].google_id = users[i].google_id
          /\ \A k \in DOMAIN otps :
                 /\ otps'[k].email = otps[k].email
                 /\ otps'[k].otp_code = otps[k].otp_code
                 /\ otps'[k].created_at = otps[k].created_at
                 /\ otps[k].used => otps'[k].used]_vars

\* A user with a password has been verified and linked to a Google account;
\* one OTP row is used and another is not.
C39_Witness ==
    /\ \E i \in DOMAIN users :
           /\ users[i].google_id # ""
           /\ users[i].is_verified
           /\ users[i].password_hash # <<>>
    /\ \E k \in DOMAIN otps : otps[k].used
    /\ \E k \in DOMAIN otps : ~otps[k].used

====
